---- MODULE Spec2Model ----
(***************************************************************************)
(* TfStage (post_processing_stages/tf_stage.cpp): a post-processing stage  *)
(* that runs a TensorFlow Lite inference on the low resolution stream      *)
(* every refresh_rate frames, asynchronously to the frame threads.         *)
(*                                                                         *)
(* Threads of the model:                                                   *)
(*   - the lifecycle thread: Read, Configure, Stop;                        *)
(*   - NumFrameThreads frame threads, each running Process on one frame    *)
(*     at a time (frames are delivered concurrently);                      *)
(*   - one thread per std::async task, running the lambda of lines         *)
(*     111-116 (runInference, then the timing message).                    *)
(*                                                                         *)
(* A task is named by the sequence number of the frame that launched it.   *)
(* Pixel data is abstracted to the sequence number of the frame it was     *)
(* taken from: tensor_input_, the interpreter's input and output tensors   *)
(* and the results each hold the number of the frame they derive from.     *)
(*                                                                         *)
(* The host: frames carry increasing sequence numbers from 0; several      *)
(* Process calls may be in progress at once; Stop may be called while      *)
(* Process calls are in progress (nothing in Stop or Process excludes it), *)
(* and no frame is delivered once Stop has been called.                    *)
(*                                                                         *)
(* Left out: the main stream's geometry (lines 82-91), which nothing in    *)
(* this file reads, and the subclass hooks readExtras and                  *)
(* checkConfiguration, taken to accept the configuration.                  *)
(***************************************************************************)
EXTENDS Integers, Naturals, Sequences, FiniteSets, TLC

\* ------------------------------------------------------------------ bounds
\* Frame threads of the host, frames it delivers, largest dimension of the
\* low resolution stream, and the model input size given to the constructor.
NumFrameThreads == 2
NumFrames == 2
MaxDim == 2
TfWidth == 2
TfHeight == 2
\* Largest width and height given to yuvToRgb in PixelSpec.
ConvMaxDim == 5

\* ------------------------------------------------- values of the fields
NoFuture == -1
InvalidFuture == -2
EmptyInput == -1
NoResults == -1
NotAttached == -2

FrameThreads == 1..NumFrameThreads
Seqs == 0..(NumFrames - 1)
Dims == 1..MaxDim
\* Values of the refresh_rate parameter: every frame, every other frame,
\* disabled, negative.
RefreshRates == <<1, 2, 0, -1>>
TensorTypes == {"kTfLiteUInt8", "kTfLiteFloat32", "kTfLiteInt8"}
EngineOutcomes == {"ok", "no_model", "no_interpreter", "no_tensors"}

Free == <<"free", 0>>
FrameOwner(t) == <<"frame", t>>
TaskOwner(id) == <<"task", id>>
NoFrame == [y |-> 0, u |-> 0, v |-> 0, past |-> 0]

VARIABLES
    phase,          \* lifecycle: "constructed", "read", "configured", "failed"
    error,          \* message of the exception that ended set-up, "" if none
    interpreter_,   \* what Read found: how far the TFLite set-up got, and
                    \* the input tensor's type and size in bytes
    refresh_rate,   \* config_->refresh_rate
    tf_w_, tf_h_,   \* model input size
    lores_stream_,  \* TRUE iff lores_stream_ != nullptr
    lores_w_, lores_h_, lores_stride_,
    future_mutex_, output_mutex_,   \* owner of each mutex, Free if unlocked
    future_,        \* task whose future the in-flight slot holds; NoFuture
                    \* if null, InvalidFuture for a future without a task
    tensor_input_,  \* frame the converted buffer was taken from
    tensor,         \* interpreter input tensor
    out_tensor,     \* interpreter output tensor
    results,        \* the subclass's result set, written by interpretOutputs
    task,           \* task id -> position of that task's thread
    launched,       \* task ids in the order std::async created them
    pc,             \* frame thread -> position inside Process
    req,            \* frame thread -> sequence of the request it processes
    nextSeq,        \* sequence number of the next frame the camera delivers
    attached,       \* frame -> results applyResults put on it
    returned,       \* frames whose Process call has returned
    stop_pc,        \* position of Stop: "idle", "wait", "returned", "fault"
    stop_fut,       \* the future_ pointer Stop read
    src_frame,      \* the low resolution buffer given to yuvToRgb: a solid
                    \* colour (y, u, v) and the byte found past its end
    rgb_out         \* the vector yuvToRgb returned for it, as bytes

vars == <<phase, error, interpreter_, refresh_rate, tf_w_, tf_h_, lores_stream_, lores_w_,
          lores_h_, lores_stride_, future_mutex_, output_mutex_, future_,
          tensor_input_, tensor, out_tensor, results, task, launched, pc, req,
          nextSeq, attached, returned, stop_pc, stop_fut, src_frame, rgb_out>>

configVars == <<refresh_rate, tf_w_, tf_h_, lores_stream_, lores_w_, lores_h_,
                lores_stride_>>
lifeVars == <<phase, error, interpreter_>>
pixelVars == <<src_frame, rgb_out>>
stopVars == <<stop_pc, stop_fut>>
frameVars == <<pc, req, nextSeq, attached, returned>>
engineVars == <<tensor, out_tensor, results>>

\* --------------------------------------------------------------- helpers

\* A task's thread is between its creation and the end of its lambda.
Running(id) == task[id] \in {"copy", "invoke", "lock", "interpret", "timing"}

\* future_->wait_for(0s) == ready: the lambda returned or threw.
FutureReady(id) == task[id] \in {"done", "failed"}

RunningTasks == {id \in Seqs : Running(id)}

\* sequence % refresh_rate of line 103, for refresh_rate # 0. The sequence is
\* an unsigned int, so the int refresh_rate is converted to unsigned: a
\* negative rate n becomes 2^32 + n, which is at least 2^31 and so exceeds
\* every sequence number below 2^31, leaving the sequence as the remainder.
UnsignedRem(seq, rate) == IF rate > 0 THEN seq % rate ELSE seq

\* Line 103: refresh_rate && sequence % refresh_rate == 0.
DueNoZeroCheck(seq) ==
    IF refresh_rate = 0 THEN TRUE ELSE UnsignedRem(seq, refresh_rate) = 0

\* The rate test ORed with the ready test.
DueOrReady(seq) ==
    /\ refresh_rate # 0
    /\ \/ UnsignedRem(seq, refresh_rate) = 0
       \/ (future_ # NoFuture /\ task[future_] \in {"done", "failed"})

Due(seq) == refresh_rate # 0 /\ UnsignedRem(seq, refresh_rate) = 0

\* Line 104: !future_ || future_->wait_for(0s) == ready.
SlotFreeNoReadyCheck == TRUE

SlotFreeInverted == future_ = NoFuture \/ ~FutureReady(future_)

SlotFree == future_ = NoFuture \/ FutureReady(future_)

\* yuvToRgb of the frame's low resolution buffer (the pixels of frame seq).
Snapshot(seq) == seq

\* Subclass hooks.
interpretOutputs(out) == out
applyResults(res) == res

\* ------------------------------------------------------------------ Init
\* After the constructor, called with a model input of TfWidth x TfHeight:
\* tf_w_ > 0 and tf_h_ > 0 (lines 10-14).
Init ==
    /\ phase = "constructed"
    /\ error = ""
    /\ interpreter_ = [engine |-> "none", type |-> "none", bytes |-> 0]
    /\ refresh_rate = 0
    /\ tf_w_ = TfWidth
    /\ tf_h_ = TfHeight
    /\ lores_stream_ = FALSE
    /\ lores_w_ = 0 /\ lores_h_ = 0 /\ lores_stride_ = 0
    /\ future_mutex_ = Free
    /\ output_mutex_ = Free
    /\ future_ = NoFuture
    /\ tensor_input_ = EmptyInput
    /\ tensor = EmptyInput
    /\ out_tensor = EmptyInput
    /\ results = NoResults
    /\ task = [id \in Seqs |-> "none"]
    /\ launched = <<>>
    /\ pc = [t \in FrameThreads |-> "idle"]
    /\ req = [t \in FrameThreads |-> 0]
    /\ nextSeq = 0
    /\ attached = [s \in Seqs |-> NotAttached]
    /\ returned = {}
    /\ stop_pc = "idle"
    /\ stop_fut = NoFuture
    /\ src_frame = NoFrame
    /\ rgb_out = <<>>

\* ------------------------------------------------------------ lifecycle

\* initialise(), lines 30-62: the exception it ends with, "" if none. engine
\* is how far the TFLite set-up of lines 32-46 gets; lines 48-61 check the
\* input tensor's type and byte size against tf_w_ * tf_h_ * 3 elements.
InitialiseErrorNoSizeCheck(engine, type, bytes) ==
    IF engine = "no_model" THEN "TfStage: Failed to load model"
    ELSE IF engine = "no_interpreter" THEN "TfStage: Failed to construct interpreter"
    ELSE IF engine = "no_tensors" THEN "TfStage: Failed to allocate tensors"
    ELSE IF type \in {"kTfLiteUInt8", "kTfLiteFloat32"} THEN ""
    ELSE "TfStage: Input tensor data type not supported"

InitialiseError(engine, type, bytes) ==
    IF engine = "no_model" THEN "TfStage: Failed to load model"
    ELSE IF engine = "no_interpreter" THEN "TfStage: Failed to construct interpreter"
    ELSE IF engine = "no_tensors" THEN "TfStage: Failed to allocate tensors"
    ELSE IF type = "kTfLiteUInt8"
    THEN IF tf_w_ * tf_h_ * 3 * 1 # bytes
         THEN "TfStage: Input tensor size mismatch" ELSE ""
    ELSE IF type = "kTfLiteFloat32"
    THEN IF tf_w_ * tf_h_ * 3 * 4 # bytes
         THEN "TfStage: Input tensor size mismatch" ELSE ""
    ELSE "TfStage: Input tensor data type not supported"

\* Read: the parameters, then initialise().
Read ==
    /\ phase = "constructed"
    /\ \E r \in DOMAIN RefreshRates, engine \in EngineOutcomes,
          type \in TensorTypes,
          bytes \in {tf_w_ * tf_h_ * 3, tf_w_ * tf_h_ * 12} :
        /\ refresh_rate' = RefreshRates[r]
        /\ interpreter_' = [engine |-> engine, type |-> type, bytes |-> bytes]
        /\ error' = InitialiseError(engine, type, bytes)
        /\ phase' = IF InitialiseError(engine, type, bytes) = ""
                    THEN "read" ELSE "failed"
    /\ UNCHANGED <<pixelVars, tf_w_, tf_h_, lores_stream_, lores_w_, lores_h_,
                   lores_stride_, future_mutex_, output_mutex_, future_, tensor_input_,
                   engineVars, task, launched, frameVars, stopVars>>

\* Line 73: the low resolution image is too small for the model.
TooSmallBothOnly(w, h) == tf_w_ > w /\ tf_h_ > h

TooSmall(w, h) == tf_w_ > w \/ tf_h_ > h

\* Configure, lines 64-80, with a low resolution stream of w x h.
ConfigureLores(w, h, stride) ==
    /\ lores_w_' = w /\ lores_h_' = h /\ lores_stride_' = stride
    /\ lores_stream_' = ~TooSmall(w, h)

\* Configure, lines 66-68 and 79-80, without a low resolution stream.
ConfigureNoLores ==
    /\ lores_w_' = 0 /\ lores_h_' = 0 /\ lores_stride_' = 0
    /\ lores_stream_' = FALSE

Configure ==
    /\ phase = "read"
    /\ \/ ConfigureNoLores
       \/ \E w \in Dims, h \in Dims : ConfigureLores(w, h, w)
    /\ phase' = "configured"
    /\ UNCHANGED <<pixelVars, error, interpreter_, refresh_rate, tf_w_, tf_h_, future_mutex_,
                   output_mutex_, future_, tensor_input_, engineVars, task,
                   launched, frameVars, stopVars>>

\* --------------------------------------------------------------- Process

\* Lines 96-99: the host hands the next frame to a frame thread; without a
\* low resolution stream Process returns at once.
ProcessEnter(t) ==
    /\ phase = "configured"
    /\ stop_pc = "idle"
    /\ pc[t] = "idle"
    /\ nextSeq < NumFrames
    /\ nextSeq' = nextSeq + 1
    /\ req' = [req EXCEPT ![t] = nextSeq]
    /\ IF lores_stream_
       THEN /\ pc' = [pc EXCEPT ![t] = "lock_future"]
            /\ returned' = returned
       ELSE /\ pc' = pc
            /\ returned' = returned \cup {nextSeq}
    /\ UNCHANGED <<pixelVars, lifeVars, configVars, future_mutex_, output_mutex_, future_,
                   tensor_input_, engineVars, task, launched, attached, stopVars>>

\* Lines 102-104: take future_mutex_ and evaluate the launch condition.
ProcessCheck(t) ==
    /\ pc[t] = "lock_future"
    /\ future_mutex_ = Free
    /\ future_mutex_' = FrameOwner(t)
    /\ pc' = [pc EXCEPT ![t] = IF Due(req[t]) /\ SlotFree
                               THEN "convert" ELSE "unlock_future"]
    /\ UNCHANGED <<pixelVars, lifeVars, configVars, output_mutex_, future_, tensor_input_,
                   engineVars, task, launched, req, nextSeq, attached, returned,
                   stopVars>>

\* ProcessConvert leaving tensor_input_ as it was.
ProcessConvertSkipped(t) ==
    /\ pc[t] = "convert"
    /\ tensor_input_' = tensor_input_
    /\ pc' = [pc EXCEPT ![t] = "reset"]
    /\ UNCHANGED <<pixelVars, lifeVars, configVars, future_mutex_, output_mutex_, future_,
                   engineVars, task, launched, req, nextSeq, attached, returned,
                   stopVars>>

\* Lines 106-108: tensor_input_ = yuvToRgb(buffer of this request).
ProcessConvert(t) ==
    /\ pc[t] = "convert"
    /\ tensor_input_' = Snapshot(req[t])
    /\ pc' = [pc EXCEPT ![t] = "reset"]
    /\ UNCHANGED <<pixelVars, lifeVars, configVars, future_mutex_, output_mutex_, future_,
                   engineVars, task, launched, req, nextSeq, attached, returned,
                   stopVars>>

\* Line 110: the slot takes a new, default-constructed future (one without a
\* task); the future it held is destroyed.
ProcessReset(t) ==
    /\ pc[t] = "reset"
    /\ future_' = InvalidFuture
    /\ pc' = [pc EXCEPT ![t] = "launch"]
    /\ UNCHANGED <<pixelVars, lifeVars, configVars, future_mutex_, output_mutex_,
                   tensor_input_, engineVars, task, launched, req, nextSeq,
                   attached, returned, stopVars>>

\* Lines 111-116: std::async starts the task's thread, and its future is
\* moved into the slot.
ProcessLaunch(t) ==
    /\ pc[t] = "launch"
    /\ future_' = req[t]
    /\ task' = [task EXCEPT ![req[t]] = "copy"]
    /\ launched' = Append(launched, req[t])
    /\ pc' = [pc EXCEPT ![t] = "unlock_future"]
    /\ UNCHANGED <<pixelVars, lifeVars, configVars, future_mutex_, output_mutex_,
                   tensor_input_, engineVars, req, nextSeq, attached, returned,
                   stopVars>>

\* ProcessUnlock leaving future_mutex_ held.
ProcessUnlockKeepsLock(t) ==
    /\ pc[t] = "unlock_future"
    /\ future_mutex_' = future_mutex_
    /\ pc' = [pc EXCEPT ![t] = "lock_output"]
    /\ UNCHANGED <<pixelVars, lifeVars, configVars, output_mutex_, future_, tensor_input_,
                   engineVars, task, launched, req, nextSeq, attached, returned,
                   stopVars>>

\* Line 118: the scope of lck ends.
ProcessUnlock(t) ==
    /\ pc[t] = "unlock_future"
    /\ future_mutex_' = Free
    /\ pc' = [pc EXCEPT ![t] = "lock_output"]
    /\ UNCHANGED <<pixelVars, lifeVars, configVars, output_mutex_, future_, tensor_input_,
                   engineVars, task, launched, req, nextSeq, attached, returned,
                   stopVars>>

\* Line 120: take output_mutex_.
ProcessLockOutput(t) ==
    /\ pc[t] = "lock_output"
    /\ output_mutex_ = Free
    /\ output_mutex_' = FrameOwner(t)
    /\ pc' = [pc EXCEPT ![t] = "apply"]
    /\ UNCHANGED <<pixelVars, lifeVars, configVars, future_mutex_, future_, tensor_input_,
                   engineVars, task, launched, req, nextSeq, attached, returned,
                   stopVars>>

\* Lines 121-124: applyResults on the request, unlock, return false.
ProcessApplySkipped(t) ==
    /\ pc[t] = "apply"
    /\ attached' = attached
    /\ output_mutex_' = Free
    /\ returned' = returned \cup {req[t]}
    /\ pc' = [pc EXCEPT ![t] = "idle"]
    /\ UNCHANGED <<pixelVars, lifeVars, configVars, future_mutex_, future_, tensor_input_,
                   engineVars, task, launched, req, nextSeq, stopVars>>

ProcessApply(t) ==
    /\ pc[t] = "apply"
    /\ attached' = [attached EXCEPT ![req[t]] = applyResults(results)]
    /\ output_mutex_' = Free
    /\ returned' = returned \cup {req[t]}
    /\ pc' = [pc EXCEPT ![t] = "idle"]
    /\ UNCHANGED <<pixelVars, lifeVars, configVars, future_mutex_, future_, tensor_input_,
                   engineVars, task, launched, req, nextSeq, stopVars>>

\* ------------------------------------------------- the inference task

\* Lines 162-175: copy tensor_input_ into the interpreter's input tensor
\* (as bytes, or normalised to float).
TaskCopyLocked(id) ==
    /\ task[id] = "copy"
    /\ output_mutex_ = Free
    /\ output_mutex_' = TaskOwner(id)
    /\ tensor' = tensor_input_
    /\ task' = [task EXCEPT ![id] = "invoke"]
    /\ UNCHANGED <<pixelVars, lifeVars, configVars, future_mutex_, future_, tensor_input_,
                   out_tensor, results, launched, frameVars, stopVars>>

TaskCopy(id) ==
    /\ task[id] = "copy"
    /\ tensor' = tensor_input_
    /\ task' = [task EXCEPT ![id] = "invoke"]
    /\ UNCHANGED <<pixelVars, lifeVars, configVars, future_mutex_, output_mutex_, future_,
                   tensor_input_, out_tensor, results, launched, frameVars,
                   stopVars>>

\* TaskInvokeOk going straight to the end of the lambda.
TaskInvokeOkSkipsPublish(id) ==
    /\ task[id] = "invoke"
    /\ out_tensor' = tensor
    /\ task' = [task EXCEPT ![id] = "timing"]
    /\ UNCHANGED <<pixelVars, lifeVars, configVars, future_mutex_, output_mutex_, future_,
                   tensor_input_, tensor, results, launched, frameVars, stopVars>>

\* Line 177, Invoke() == kTfLiteOk: the forward pass fills the output tensor.
TaskInvokeOk(id) ==
    /\ task[id] = "invoke"
    /\ out_tensor' = tensor
    /\ task' = [task EXCEPT ![id] = "lock"]
    /\ UNCHANGED <<pixelVars, lifeVars, configVars, future_mutex_, output_mutex_, future_,
                   tensor_input_, tensor, results, launched, frameVars, stopVars>>

\* Lines 177-178, Invoke() != kTfLiteOk: runInference throws; std::async
\* stores the exception in the shared state and the future becomes ready.
TaskInvokeFailPublishes(id) ==
    /\ task[id] = "invoke"
    /\ results' = interpretOutputs(tensor)
    /\ task' = [task EXCEPT ![id] = "failed"]
    /\ UNCHANGED <<pixelVars, lifeVars, configVars, future_mutex_, output_mutex_, future_,
                   tensor_input_, tensor, out_tensor, launched, frameVars,
                   stopVars>>

TaskInvokeFail(id) ==
    /\ task[id] = "invoke"
    /\ task' = [task EXCEPT ![id] = "failed"]
    /\ UNCHANGED <<pixelVars, lifeVars, configVars, future_mutex_, output_mutex_, future_,
                   tensor_input_, engineVars, launched, frameVars, stopVars>>

\* TaskLock not waiting for output_mutex_ to be free.
TaskLockNoWait(id) ==
    /\ task[id] = "lock"
    /\ output_mutex_' = TaskOwner(id)
    /\ task' = [task EXCEPT ![id] = "interpret"]
    /\ UNCHANGED <<pixelVars, lifeVars, configVars, future_mutex_, future_, tensor_input_,
                   engineVars, launched, frameVars, stopVars>>

\* Line 180: take output_mutex_.
TaskLock(id) ==
    /\ task[id] = "lock"
    /\ output_mutex_ = Free
    /\ output_mutex_' = TaskOwner(id)
    /\ task' = [task EXCEPT ![id] = "interpret"]
    /\ UNCHANGED <<pixelVars, lifeVars, configVars, future_mutex_, future_, tensor_input_,
                   engineVars, launched, frameVars, stopVars>>

\* Lines 181-182: interpretOutputs(), then the lock's scope ends.
TaskInterpretFirstOnly(id) ==
    /\ task[id] = "interpret"
    /\ results' = IF results = NoResults THEN interpretOutputs(out_tensor)
                  ELSE results
    /\ output_mutex_' = Free
    /\ task' = [task EXCEPT ![id] = "timing"]
    /\ UNCHANGED <<pixelVars, lifeVars, configVars, future_mutex_, future_, tensor_input_,
                   tensor, out_tensor, launched, frameVars, stopVars>>

TaskInterpret(id) ==
    /\ task[id] = "interpret"
    /\ results' = interpretOutputs(out_tensor)
    /\ output_mutex_' = Free
    /\ task' = [task EXCEPT ![id] = "timing"]
    /\ UNCHANGED <<pixelVars, lifeVars, configVars, future_mutex_, future_, tensor_input_,
                   tensor, out_tensor, launched, frameVars, stopVars>>

\* Lines 112-116: the lambda reports the time taken and returns; the future
\* becomes ready.
TaskFinish(id) ==
    /\ task[id] = "timing"
    /\ task' = [task EXCEPT ![id] = "done"]
    /\ UNCHANGED <<pixelVars, lifeVars, configVars, future_mutex_, output_mutex_, future_,
                   tensor_input_, engineVars, launched, frameVars, stopVars>>

\* ------------------------------------------------------------------ Stop

\* Line 186: Stop reads future_ (without future_mutex_). A null slot makes
\* it return at once; wait() on a future without a task (the slot between
\* lines 110 and 111 of a concurrent Process) has no shared state to wait
\* on, and faults (the library throws std::future_error or dereferences a
\* null state).
StopCall ==
    /\ phase = "configured"
    /\ stop_pc = "idle"
    /\ stop_fut' = future_
    /\ stop_pc' \in IF future_ = NoFuture THEN {"returned"}
                     ELSE IF future_ = InvalidFuture THEN {"fault"}
                     ELSE {"wait"}
    /\ UNCHANGED <<pixelVars, lifeVars, configVars, future_mutex_, output_mutex_, future_,
                   tensor_input_, engineVars, task, launched, frameVars>>

\* Line 187: future_->wait() returns once the task is ready. It does not
\* rethrow a stored exception (only get() would).
StopWait ==
    /\ stop_pc = "wait"
    /\ stop_fut = future_
    /\ FutureReady(stop_fut)
    /\ stop_pc' = "returned"
    /\ UNCHANGED <<pixelVars, lifeVars, configVars, future_mutex_, output_mutex_, future_,
                   tensor_input_, engineVars, task, launched, frameVars, stop_fut>>

\* Line 187 when a concurrent Process (line 110) has destroyed the future
\* Stop is waiting on: the wait is on a dead object, and either returns or
\* faults.
StopWaitDangling ==
    /\ stop_pc = "wait"
    /\ stop_fut # future_
    /\ stop_pc' \in {"returned", "fault"}
    /\ UNCHANGED <<pixelVars, lifeVars, configVars, future_mutex_, output_mutex_, future_,
                   tensor_input_, engineVars, task, launched, frameVars, stop_fut>>

\* --------------------------------------------------------- specification
Next ==
    \/ Read
    \/ Configure
    \/ \E t \in FrameThreads : ProcessEnter(t)
    \/ \E t \in FrameThreads : ProcessCheck(t)
    \/ \E t \in FrameThreads : ProcessConvert(t)
    \/ \E t \in FrameThreads : ProcessReset(t)
    \/ \E t \in FrameThreads : ProcessLaunch(t)
    \/ \E t \in FrameThreads : ProcessUnlock(t)
    \/ \E t \in FrameThreads : ProcessLockOutput(t)
    \/ \E t \in FrameThreads : ProcessApply(t)
    \/ \E id \in Seqs : TaskCopy(id)
    \/ \E id \in Seqs : TaskInvokeOk(id)
    \/ \E id \in Seqs : TaskInvokeFail(id)
    \/ \E id \in Seqs : TaskLock(id)
    \/ \E id \in Seqs : TaskInterpret(id)
    \/ \E id \in Seqs : TaskFinish(id)
    \/ StopCall
    \/ StopWait
    \/ StopWaitDangling

Spec == Init /\ [][Next]_vars

\* The steps of a Process call once the host has made it, and of a task.
ProcessStep(t) ==
    \/ ProcessCheck(t) \/ ProcessConvert(t) \/ ProcessReset(t)
    \/ ProcessLaunch(t) \/ ProcessUnlock(t) \/ ProcessLockOutput(t)
    \/ ProcessApply(t)

TaskStep(id) ==
    \/ TaskCopy(id) \/ TaskInvokeOk(id) \/ TaskInvokeFail(id)
    \/ TaskLock(id) \/ TaskInterpret(id) \/ TaskFinish(id)

\* Fair scheduling: a frame thread inside Process and the thread of a task
\* (line 111, std::launch::async) keep running, the forward pass of line 177
\* returns, and a mutex that stays free is granted. The host is free never to
\* deliver another frame and never to call Stop.
FairSpec ==
    /\ Spec
    /\ \A t \in FrameThreads : WF_vars(ProcessStep(t))
    /\ \A id \in Seqs : WF_vars(TaskStep(id))

\* ---------------------------------------------------------------- yuvToRgb
\* The conversion of lines 126-158 on concrete bytes. The source buffer is a
\* solid-colour 4:2:0 frame: a luma plane of lores_h_ * lores_stride_ bytes,
\* then a U and a V plane of (lores_h_ / 2) * (lores_stride_ / 2) bytes each.

ConvDims == 1..ConvMaxDim
LumaSamples == {0, 128, 255}
ChromaSamples == {0, 128, 255}
PastSamples == {0, 255}

\* int division, which truncates toward zero.
TruncDiv(n, d) == IF n >= 0 THEN n \div d ELSE -((-n) \div d)

\* n & ~1 on a two's complement int.
ClearBit0(n) == n - (n % 2)

\* off_x without the alignment.
off_x_unaligned == TruncDiv(lores_w_ - tf_w_, 2)

\* Line 131.
off_x == ClearBit0(TruncDiv(lores_w_ - tf_w_, 2))

off_y == ClearBit0(TruncDiv(lores_h_ - tf_h_, 2))

\* Line 132.
src_size == lores_h_ * lores_stride_

src_U_size == TruncDiv(lores_h_, 2) * TruncDiv(lores_stride_, 2)

\* Size of the 4:2:0 buffer: the luma plane and the two chroma planes.
BufferSize == src_size + 2 * src_U_size

\* Lines 144-145: how far src_U and src_V have been advanced when pixel x of
\* a row is read (each pixel i before it advanced them by i & 1).
RECURSIVE ChromaAdvance(_)
ChromaAdvance(x) == IF x <= 0 THEN 0 ELSE ChromaAdvance(x - 1) + ((x - 1) % 2)

\* Lines 136 and 141: offset in src of the luma byte read for pixel (x, y).
IndexY(x, y) == (y + off_y) * lores_stride_ + off_x + x

\* Lines 137 and 142: offset in src of the U byte read for pixel (x, y).
IndexU(x, y) ==
    src_size + TruncDiv(y + off_y, 2) * TruncDiv(lores_stride_, 2)
             + TruncDiv(off_x, 2) + ChromaAdvance(x)

\* Lines 138 and 143: offset in src of the V byte read for pixel (x, y).
IndexV(x, y) == IndexU(x, y) + src_U_size

\* The byte at offset i of the buffer of a solid-colour frame. A read outside
\* the buffer has no defined behaviour; when it does not fault it yields
\* whatever byte lies there, frame.past.
SrcByte(frame, i) ==
    IF i < 0 \/ i >= BufferSize THEN frame.past
    ELSE IF i < src_size THEN frame.y
    ELSE IF i < src_size + src_U_size THEN frame.u
    ELSE frame.v

\* std::clamp<int>(v, 0, 255).
Clamp(v) == IF v < 0 THEN 0 ELSE IF v > 255 THEN 255 ELSE v

\* Lines 147-149, in thousandths: the double is converted to int (truncated
\* toward zero) and clamped. On the sampled colours this integer form gives
\* the same bytes as the double arithmetic.
PixelRgb(Y, U, V) ==
    << Clamp(TruncDiv(1000 * Y + 1402 * (V - 128), 1000)),
       Clamp(TruncDiv(1000 * Y - 345 * (U - 128) - 714 * (V - 128), 1000)),
       Clamp(TruncDiv(1000 * Y + 1771 * (U - 128), 1000)) >>

\* Lines 139-154: the bytes written for pixels x, x + 1, ... of row y.
RECURSIVE RowRgb(_, _, _)
RowRgb(frame, y, x) ==
    IF x >= tf_w_ THEN <<>>
    ELSE PixelRgb(SrcByte(frame, IndexY(x, y)), SrcByte(frame, IndexU(x, y)),
                  SrcByte(frame, IndexV(x, y)))
         \o RowRgb(frame, y, x + 1)

\* Lines 134-155: the bytes written for rows y, y + 1, ...
RECURSIVE RowsRgb(_, _)
RowsRgb(frame, y) ==
    IF y >= tf_h_ THEN <<>> ELSE RowRgb(frame, y, 0) \o RowsRgb(frame, y + 1)

\* Lines 126-158: the bytes written through dst, in order.
yuvToRgb(frame) == RowsRgb(frame, 0)

\* After the constructor, for any model input size up to ConvMaxDim.
PixelInit ==
    /\ phase = "constructed"
    /\ error = ""
    /\ interpreter_ = [engine |-> "none", type |-> "none", bytes |-> 0]
    /\ refresh_rate = 0
    /\ tf_w_ \in ConvDims
    /\ tf_h_ \in ConvDims
    /\ lores_stream_ = FALSE
    /\ lores_w_ = 0 /\ lores_h_ = 0 /\ lores_stride_ = 0
    /\ future_mutex_ = Free
    /\ output_mutex_ = Free
    /\ future_ = NoFuture
    /\ tensor_input_ = EmptyInput
    /\ tensor = EmptyInput
    /\ out_tensor = EmptyInput
    /\ results = NoResults
    /\ task = [id \in Seqs |-> "none"]
    /\ launched = <<>>
    /\ pc = [t \in FrameThreads |-> "idle"]
    /\ req = [t \in FrameThreads |-> 0]
    /\ nextSeq = 0
    /\ attached = [s \in Seqs |-> NotAttached]
    /\ returned = {}
    /\ stop_pc = "idle"
    /\ stop_fut = NoFuture
    /\ src_frame = NoFrame
    /\ rgb_out = <<>>

\* Configure with a low resolution stream of any size up to ConvMaxDim, its
\* stride the width or one more, or without one.
PixelConfigure ==
    /\ phase = "read"
    /\ \/ ConfigureNoLores
       \/ \E w \in ConvDims, h \in ConvDims :
            \E stride \in {w, w + 1} : ConfigureLores(w, h, stride)
    /\ phase' = "configured"
    /\ UNCHANGED <<pixelVars, error, interpreter_, refresh_rate, tf_w_, tf_h_,
                   future_mutex_, output_mutex_, future_, tensor_input_,
                   engineVars, task, launched, frameVars, stopVars>>

\* Lines 106-108 on concrete bytes: yuvToRgb on the buffer of a solid-colour
\* frame. One frame is converted in a behaviour.
PixelConvert ==
    /\ phase = "configured"
    /\ lores_stream_
    /\ rgb_out = <<>>
    /\ \E y \in LumaSamples, u \in ChromaSamples, v \in ChromaSamples,
          past \in PastSamples :
        /\ src_frame' = [y |-> y, u |-> u, v |-> v, past |-> past]
        /\ rgb_out' = yuvToRgb([y |-> y, u |-> u, v |-> v, past |-> past])
    /\ UNCHANGED <<lifeVars, configVars, future_mutex_, output_mutex_, future_,
                   tensor_input_, engineVars, task, launched, frameVars,
                   stopVars>>

PixelNext == Read \/ PixelConfigure \/ PixelConvert

PixelSpec == PixelInit /\ [][PixelNext]_vars

\* ================================================================ claims

\* The claims' wording of a frame that is due for launch.
DueFrame(seq) == refresh_rate > 0 /\ seq % refresh_rate = 0

LaunchedSet == {launched[i] : i \in 1..Len(launched)}

\* Tasks whose interpretOutputs call has completed.
Published(id) == task[id] \in {"timing", "done"}

\* The task launched last among those that have published, NoResults if none.
LatestPublished ==
    IF \E i \in 1..Len(launched) : Published(launched[i])
    THEN launched[CHOOSE i \in 1..Len(launched) :
                    /\ Published(launched[i])
                    /\ \A j \in (i + 1)..Len(launched) : ~Published(launched[j])]
    ELSE NoResults

\* C1: at most one inference task is Running in any state, and a frame thread
\* that is about to launch a task (it has passed the test of lines 103-104 and
\* holds future_mutex_) finds the slot empty or holding a finished task.
C1_AtMostOneRunning ==
    /\ Cardinality(RunningTasks) <= 1
    /\ \A t \in FrameThreads :
         pc[t] \in {"convert", "reset"} =>
           (future_ = NoFuture \/ FutureReady(future_))

\* C1 witness: two tasks have been launched, by frames delivered to the frame
\* threads, and one of them is Running.
C1_Witness ==
    /\ Len(launched) = 2
    /\ Cardinality(RunningTasks) = 1
    /\ \E t \in FrameThreads : pc[t] # "idle"

\* C2: with refresh_rate = 0 no task is ever launched: the slot stays empty
\* and no task leaves the state "none".
C2_ZeroRateNeverLaunches ==
    refresh_rate = 0 =>
      /\ future_ = NoFuture
      /\ launched = <<>>
      /\ \A id \in Seqs : task[id] = "none"
      /\ \A t \in FrameThreads : pc[t] \notin {"convert", "reset", "launch"}

\* C2 witness: refresh_rate = 0, the low resolution path is enabled and
\* every frame has been through Process.
C2_Witness ==
    /\ phase = "configured"
    /\ refresh_rate = 0
    /\ lores_stream_
    /\ returned = Seqs

\* C3: a Process call that evaluates the launch condition on a due frame
\* while the task in the slot is still Running skips the launch: the step
\* leaves future_, tensor_input_, the tasks and the launch history unchanged
\* and goes on to release the lock; and no later step of a call that did not
\* launch touches the slot or the input buffer.
C3_LaunchSkipped ==
    [][\A t \in FrameThreads :
         /\ ( /\ pc[t] = "lock_future" /\ pc'[t] # "lock_future"
              /\ DueFrame(req[t])
              /\ future_ \in Seqs /\ Running(future_) )
            => /\ pc'[t] = "unlock_future"
               /\ future_' = future_
               /\ tensor_input_' = tensor_input_
               /\ task' = task
               /\ launched' = launched
         /\ ( /\ pc[t] \in {"unlock_future", "lock_output", "apply"}
              /\ pc'[t] # pc[t] )
            => /\ pc'[t] \in {"lock_output", "apply", "idle"}
               /\ future_' = future_
               /\ tensor_input_' = tensor_input_
               /\ task' = task
               /\ launched' = launched]_vars

\* C3 witness: refresh_rate = 1, a frame that is due has been refused the
\* launch while the task of the other frame is Running, and that task is the
\* only one.
C3_Witness ==
    \E t \in FrameThreads :
      /\ refresh_rate = 1
      /\ pc[t] = "unlock_future"
      /\ DueFrame(req[t])
      /\ future_ \in Seqs \ {req[t]}
      /\ Running(future_)
      /\ req[t] \notin LaunchedSet
      /\ RunningTasks = {future_}

\* C4: a task holds no lock outside the critical section of lines 180-182:
\* future_mutex_ is never held by a task, output_mutex_ is held by a task only
\* while it is at interpretOutputs, and a Process call waiting for a lock can
\* take it unless another frame thread or a task at interpretOutputs holds it.
C4_ProcessNeverWaitsForInference ==
    /\ future_mutex_ \in {Free} \cup {FrameOwner(t) : t \in FrameThreads}
    /\ \A id \in Seqs :
         output_mutex_ = TaskOwner(id) <=> task[id] = "interpret"
    /\ \A t \in FrameThreads :
         /\ ( /\ pc[t] = "lock_future"
              /\ \A u \in FrameThreads : future_mutex_ # FrameOwner(u) )
            => ENABLED ProcessCheck(t)
         /\ ( /\ pc[t] = "lock_output"
              /\ \A u \in FrameThreads : output_mutex_ # FrameOwner(u)
              /\ \A id \in Seqs : task[id] # "interpret" )
            => ENABLED ProcessLockOutput(t)

\* C4 witness: a task is in its forward pass while a Process call for another
\* frame holds output_mutex_, having taken and released future_mutex_.
C4_Witness ==
    \E id \in Seqs, t \in FrameThreads :
      /\ task[id] = "invoke"
      /\ pc[t] = "apply"
      /\ req[t] # id
      /\ future_mutex_ = Free

\* C5 (as claimed): whenever Stop has returned, no task is Running.
C5_StopReturnedNoTaskRunning ==
    stop_pc = "returned" => RunningTasks = {}

\* C6 (as claimed): the Process call that inspects the slot (a call for a due
\* frame, which evaluates line 104) while it holds a failed task, and the
\* Stop that waits on a failed task, raise a stage-level error.
C6_FailureRaisedOnObservation ==
    [][/\ \A t \in FrameThreads :
            ( /\ pc[t] = "lock_future" /\ pc'[t] # "lock_future"
              /\ DueFrame(req[t])
              /\ future_ \in Seqs /\ task[future_] = "failed" )
            => error' # ""
       /\ ( /\ stop_pc = "wait" /\ stop_pc' = "returned"
            /\ stop_fut \in Seqs /\ task[stop_fut] = "failed" )
          => error' # ""]_vars

\* C7: the step in which a task's forward pass fails changes neither the
\* results nor output_mutex_; a failed task never holds output_mutex_; and
\* in every state the results are empty or those of a task whose
\* interpretOutputs call completed, the one launched last among them.
C7_FailedTaskLeavesResults ==
    [][/\ \A id \in Seqs :
            (task[id] = "invoke" /\ task'[id] = "failed")
            => (results' = results /\ output_mutex_' = output_mutex_)
       /\ \A id \in Seqs :
            task'[id] = "failed"
            => (results' # id /\ output_mutex_' # TaskOwner(id))
       /\ results' = LatestPublished']_vars

\* C7 witness: the first task published its results, the second failed, and
\* the results are still those of the first.
C7_Witness ==
    /\ Len(launched) = 2
    /\ Published(launched[1])
    /\ task[launched[2]] = "failed"
    /\ results = launched[1]

\* C8: once Configure has run with the low resolution stream absent
\* (lores_w_ = 0) or smaller than the model input in either dimension, no
\* error was raised, lores_stream_ is null, and no Process call ever gets past
\* line 99: the slot, its mutex and tensor_input_ are never touched.
C8_SmallLoresDisablesInference ==
    (phase = "configured" /\ (tf_w_ > lores_w_ \/ tf_h_ > lores_h_)) =>
      /\ error = ""
      /\ ~lores_stream_
      /\ future_ = NoFuture
      /\ future_mutex_ = Free
      /\ launched = <<>>
      /\ tensor_input_ = EmptyInput
      /\ \A id \in Seqs : task[id] = "none"
      /\ \A t \in FrameThreads : pc[t] = "idle"

\* C8 witness: the stream is present, wide enough but not high enough, the
\* refresh rate is 1 and every frame has been through Process.
C8_Witness ==
    /\ phase = "configured"
    /\ lores_w_ >= tf_w_
    /\ 0 < lores_h_ /\ lores_h_ < tf_h_
    /\ refresh_rate = 1
    /\ returned = Seqs

\* C9 (as claimed): applyResults has been called on every frame whose Process
\* call has returned.
C9_AttachOnEveryFrame ==
    \A s \in returned : attached[s] # NotAttached

\* C9 (amended): with the low resolution path enabled, applyResults has been
\* called on every frame whose Process call has returned, whether or not that
\* call launched a task; with the path disabled, on none.
C9_AttachWhenLoresEnabled ==
    /\ lores_stream_ => \A s \in returned : attached[s] # NotAttached
    /\ ~lores_stream_ => \A s \in Seqs : attached[s] = NotAttached

\* C9 witness: a due frame whose launch was skipped has returned with the
\* results attached, and so has the frame that launched.
C9_Witness ==
    \E s \in returned :
      /\ lores_stream_
      /\ DueFrame(s)
      /\ s \notin LaunchedSet
      /\ attached[s] # NotAttached
      /\ \E l \in returned : l \in LaunchedSet /\ attached[l] # NotAttached

\* C10: the results only change when the task launched last completes
\* interpretOutputs, and become that task's output; so in every state they
\* are those of the task launched last among the tasks that have published;
\* and applyResults, under output_mutex_, attaches exactly these.
C10_LatestResultsAttached ==
    [][/\ results' # results =>
            \E id \in Seqs :
              /\ task[id] = "interpret" /\ task'[id] = "timing"
              /\ launched # <<>> /\ id = launched[Len(launched)]
              /\ results' = id
       /\ results' = LatestPublished'
       /\ \A t \in FrameThreads :
            (pc[t] = "apply" /\ pc'[t] = "idle")
            => attached'[req[t]] = LatestPublished]_vars

\* C10 witness: two tasks published one after the other, the results are the
\* second one's, and a frame carries the results of an earlier inference.
C10_Witness ==
    /\ Len(launched) = 2
    /\ Published(launched[1]) /\ Published(launched[2])
    /\ results = launched[2]
    /\ \E s \in returned : attached[s] = launched[1]

\* sizeof of the supported element types (lines 53 and 55).
ElementSize(type) == IF type = "kTfLiteUInt8" THEN 1 ELSE 4

\* C11: when the TFLite set-up succeeded, an input tensor of a type other
\* than byte or float32 ends Read with the unsupported-type error, and one of
\* a supported type whose byte size differs from tf_w * tf_h * 3 *
\* elementSize ends it with the size-mismatch error; the stage then never
\* leaves the failed state, and no frame was or is processed and no task
\* launched. A stage that got past Read has a supported type of the expected
\* size.
C11_InputSizeValidated ==
    /\ ( /\ interpreter_.engine = "ok"
         /\ interpreter_.type \notin {"kTfLiteUInt8", "kTfLiteFloat32"} )
       => /\ phase = "failed"
          /\ error = "TfStage: Input tensor data type not supported"
    /\ ( /\ interpreter_.engine = "ok"
         /\ interpreter_.type \in {"kTfLiteUInt8", "kTfLiteFloat32"}
         /\ interpreter_.bytes # tf_w_ * tf_h_ * 3 * ElementSize(interpreter_.type) )
       => /\ phase = "failed"
          /\ error = "TfStage: Input tensor size mismatch"
    /\ phase = "failed"
       => /\ error # ""
          /\ nextSeq = 0
          /\ returned = {}
          /\ launched = <<>>
          /\ future_ = NoFuture
          /\ \A t \in FrameThreads : pc[t] = "idle"
    /\ phase \in {"read", "configured"}
       => /\ error = ""
          /\ interpreter_.engine = "ok"
          /\ interpreter_.type \in {"kTfLiteUInt8", "kTfLiteFloat32"}
          /\ interpreter_.bytes = tf_w_ * tf_h_ * 3 * ElementSize(interpreter_.type)

\* C11 witness: a float32 input tensor of tf_w * tf_h * 3 bytes (the size a
\* byte model would have) has ended Read with the size-mismatch error.
C11_Witness ==
    /\ phase = "failed"
    /\ interpreter_.engine = "ok"
    /\ interpreter_.type = "kTfLiteFloat32"
    /\ interpreter_.bytes = tf_w_ * tf_h_ * 3
    /\ error = "TfStage: Input tensor size mismatch"

\* Pixels of the model input, by column and row.
CropXs == 0..(tf_w_ - 1)
CropYs == 0..(tf_h_ - 1)

\* The three bytes yuvToRgb wrote for pixel (x, y).
OutPixel(x, y) ==
    SubSeq(rgb_out, 3 * (y * tf_w_ + x) + 1, 3 * (y * tf_w_ + x) + 3)

\* C12: for every crop Configure accepts, both crop offsets are even and
\* non-negative and keep the crop inside the image, and yuvToRgb writes
\* exactly tf_w * tf_h * 3 bytes, the size of the vector of line 128.
C12_OutputSizeAndEvenOffsets ==
    (phase = "configured" /\ lores_stream_) =>
      /\ off_x >= 0 /\ off_x % 2 = 0 /\ off_x + tf_w_ <= lores_w_
      /\ off_y >= 0 /\ off_y % 2 = 0 /\ off_y + tf_h_ <= lores_h_
      /\ rgb_out # <<>> => Len(rgb_out) = tf_w_ * tf_h_ * 3

\* C12 witness: a frame has been converted with a non-zero horizontal offset
\* and a vertical margin whose half is odd, rounded down to an even offset.
C12_Witness ==
    /\ rgb_out # <<>>
    /\ Len(rgb_out) = tf_w_ * tf_h_ * 3
    /\ off_x = 2
    /\ lores_h_ - tf_h_ = 2 /\ off_y = 0

\* C13 (as claimed): the conversion of a solid-colour frame has the same
\* triple at every pixel, every channel in 0..255, and R = G = B = Y when
\* U = V = 128.
C13_SolidColourUniform ==
    rgb_out # <<>> =>
      /\ \A x \in CropXs, y \in CropYs : OutPixel(x, y) = OutPixel(0, 0)
      /\ \A i \in 1..Len(rgb_out) : rgb_out[i] \in 0..255
      /\ (src_frame.u = 128 /\ src_frame.v = 128) =>
           \A x \in CropXs, y \in CropYs :
             OutPixel(x, y) = <<src_frame.y, src_frame.y, src_frame.y>>

\* C20 (as claimed): for every geometry Configure accepts, every luma byte
\* read lies in the cropped rows of the luma plane, every U byte in the U
\* plane and every V byte in the V plane, all inside the buffer, and the two
\* pixels of a horizontal pair read the same chroma bytes.
C20_ReadsInsidePlanes ==
    (phase = "configured" /\ lores_stream_) =>
      \A x \in CropXs, y \in CropYs :
        /\ IndexY(x, y) >= (y + off_y) * lores_stride_
        /\ IndexY(x, y) < (y + off_y) * lores_stride_ + lores_w_
        /\ IndexY(x, y) < src_size
        /\ IndexU(x, y) >= src_size
        /\ IndexU(x, y) < src_size + src_U_size
        /\ IndexV(x, y) >= src_size + src_U_size
        /\ IndexV(x, y) < BufferSize
        /\ x % 2 = 1 => /\ IndexU(x, y) = IndexU(x - 1, y)
                        /\ IndexV(x, y) = IndexV(x - 1, y)

\* C14 (as claimed): every frame on which a task was launched has
\* refresh_rate > 0 and sequence % refresh_rate = 0.
C14_LaunchOnlyOnRateBoundary ==
    \A i \in 1..Len(launched) : DueFrame(launched[i])

\* C15 (as claimed): the ready check is ORed with the rate gate, so a frame
\* off the rate boundary whose check finds the previous task finished
\* launches a new task.
C15_ReadyRelaunchesOffBoundary ==
    [][\A t \in FrameThreads :
         ( /\ ProcessCheck(t)
           /\ refresh_rate > 0
           /\ req[t] % refresh_rate # 0
           /\ future_ # NoFuture
           /\ task[future_] \in {"done", "failed"} )
         => pc'[t] = "convert"]_vars

\* C15 (amended): the ready check is ANDed with the rate gate. The check of
\* line 103-104 decides to launch exactly when refresh_rate is non-zero, the
\* sequence is a multiple of it (as unsigned values) and the slot is empty or
\* its task has finished; a frame off the rate boundary never launches.
C15_ReadyAndRateGate ==
    [][\A t \in FrameThreads :
         ProcessCheck(t) =>
           ( pc'[t] = "convert" <=>
               /\ refresh_rate # 0
               /\ UnsignedRem(req[t], refresh_rate) = 0
               /\ \/ future_ = NoFuture
                  \/ task[future_] \in {"done", "failed"} )]_vars

\* C15 witness: with refresh_rate 2 the task of frame 0 has finished, and the
\* Process call for frame 1 has evaluated the condition under future_mutex_
\* and launched nothing.
C15_Witness ==
    \E t \in FrameThreads :
      /\ refresh_rate = 2
      /\ req[t] = 1
      /\ pc[t] = "unlock_future"
      /\ future_mutex_ = FrameOwner(t)
      /\ future_ = 0
      /\ task[0] = "done"
      /\ launched = <<0>>

\* Frame threads and tasks inside the critical section of output_mutex_
\* (applyResults of line 121, interpretOutputs of line 181).
Readers == {t \in FrameThreads : pc[t] = "apply"}
Writers == {id \in Seqs : task[id] = "interpret"}

\* C16: whoever is at applyResults or at interpretOutputs holds output_mutex_,
\* and at most one of them is there at a time: never a writer with a reader,
\* two readers or two writers.
C16_ResultSetUnderLock ==
    /\ \A t \in Readers : output_mutex_ = FrameOwner(t)
    /\ \A id \in Writers : output_mutex_ = TaskOwner(id)
    /\ Cardinality(Readers) + Cardinality(Writers) <= 1

\* C16 witness: a Process call is at applyResults while a task that finished
\* its forward pass and another Process call both wait for output_mutex_.
C16_Witness ==
    \E t \in FrameThreads, u \in FrameThreads, id \in Seqs :
      /\ pc[t] = "apply"
      /\ pc[u] = "lock_output"
      /\ task[id] = "lock"

\* C17: tensor_input_ is written before the launch from the launching frame,
\* no Process call is between the write and the launch while a task runs, and
\* a running task finds, copies and computes on the pixels of its own frame.
C17_SnapshotOwnedByTask ==
    /\ \A t \in FrameThreads :
         /\ pc[t] \in {"convert", "reset", "launch"} => RunningTasks = {}
         /\ pc[t] \in {"reset", "launch"} => tensor_input_ = Snapshot(req[t])
    /\ \A id \in Seqs :
         /\ Running(id) => tensor_input_ = Snapshot(id)
         /\ task[id] = "invoke" => tensor = Snapshot(id)
         /\ task[id] \in {"lock", "interpret"} => out_tensor = Snapshot(id)

\* C17 witness: the task of frame 1, launched after the task of frame 0 had
\* finished, is in its forward pass on the pixels of frame 1.
C17_Witness ==
    /\ launched = <<0, 1>>
    /\ task[0] = "done"
    /\ task[1] = "invoke"
    /\ tensor = Snapshot(1)

\* Some Process call, task or Stop call has begun and not ended.
Pending ==
    \/ \E t \in FrameThreads : pc[t] # "idle"
    \/ RunningTasks # {}
    \/ stop_pc = "wait"

\* C19: no frame thread holds both locks, a task never holds future_mutex_,
\* the slot is replaced only when it is empty or its task has finished, the
\* holder of a lock can always take its next step, and whenever a call or a
\* task is pending some step can be taken.
C19_LocksIndependentNoDeadlock ==
    /\ \A t \in FrameThreads :
         /\ ~(future_mutex_ = FrameOwner(t) /\ output_mutex_ = FrameOwner(t))
         /\ pc[t] = "reset" => (future_ = NoFuture \/ FutureReady(future_))
         /\ future_mutex_ = FrameOwner(t) =>
              ENABLED (ProcessConvert(t) \/ ProcessReset(t)
                         \/ ProcessLaunch(t) \/ ProcessUnlock(t))
         /\ output_mutex_ = FrameOwner(t) => ENABLED ProcessApply(t)
    /\ \A id \in Seqs :
         /\ future_mutex_ # TaskOwner(id)
         /\ output_mutex_ = TaskOwner(id) => ENABLED TaskInterpret(id)
    /\ Pending => ENABLED Next

\* C19 witness: one Process call holds output_mutex_, another holds
\* future_mutex_, a task waits for output_mutex_ and Stop waits for the task.
C19_Witness ==
    \E t \in FrameThreads, u \in FrameThreads, id \in Seqs :
      /\ output_mutex_ = FrameOwner(t)
      /\ future_mutex_ = FrameOwner(u)
      /\ task[id] = "lock"
      /\ stop_pc = "wait"
      /\ stop_fut = id

\* C18: under fair scheduling every running task becomes ready and every
\* Process call gets past the slot lock; a task is never taken back or
\* restarted, and it reaches the end of the lambda only through exactly one
\* interpretOutputs call made after a successful forward pass; a due frame
\* whose check finds the slot's task finished launches a new task.
C18_TasksRunToCompletion ==
    /\ \A id \in Seqs : Running(id) ~> FutureReady(id)
    /\ \A t \in FrameThreads : (pc[t] = "lock_future") ~> (pc[t] = "lock_output")
    /\ [][\A id \in Seqs :
            /\ Running(id) => (Running(id)' \/ FutureReady(id)')
            /\ FutureReady(id) => task'[id] = task[id]
            /\ (task'[id] = "interpret" /\ task[id] # "interpret")
                 => task[id] = "lock"
            /\ (task'[id] = "lock" /\ task[id] # "lock") => task[id] = "invoke"
            /\ (task'[id] = "timing" /\ task[id] # "timing")
                 => (task[id] = "interpret"
                       /\ results' = interpretOutputs(out_tensor))
            /\ (task'[id] = "done" /\ task[id] # "done")
                 => task[id] = "timing"]_vars
    /\ [][\A t \in FrameThreads :
            ( /\ ProcessCheck(t)
              /\ DueFrame(req[t])
              /\ future_ # NoFuture
              /\ task[future_] \in {"done", "failed"} )
            => pc'[t] = "convert"]_vars
    /\ \A id \in Seqs :
         (\E t \in FrameThreads : pc[t] = "convert" /\ req[t] = id)
           ~> FutureReady(id)

\* C18 witness: the task of frame 0 failed in its forward pass, the due frame
\* 1 found it finished and launched a new task, which ran to its end and
\* published its results.
C18_Witness ==
    /\ launched = <<0, 1>>
    /\ task[0] = "failed"
    /\ task[1] = "done"
    /\ results = interpretOutputs(Snapshot(1))
====
